---- MODULE Spec2Model ----
(***************************************************************************)
(* Model of src/sird.py: the forward-Euler SIRD integrator sird_forecast,  *)
(* the scorer rmse and the exhaustive search grid_search_sird.             *)
(*                                                                         *)
(* Numbers are exact rationals <<n, d>> (d > 0, lowest terms), so that the *)
(* algebra of the Euler step is checked exactly; float("inf") is <<1, 0>>. *)
(* The square root of rmse is rounded down to a multiple of 1/SqrtScale.   *)
(* plot_sird and the CSV loading are display and I/O and are not modelled. *)
(*                                                                         *)
(* The ranges of the three linspace calls, fixed numbers in the source,    *)
(* are inputs here, as are step, nb_jours, init_conditions and the         *)
(* reference data.  Exact fractions square their denominators at every     *)
(* Euler step, so runs on fractions have a few points only; the runs long  *)
(* enough for the stride of 1000 to keep a second point use counts and     *)
(* whole rates, whose trajectories stay small integers.                    *)
(***************************************************************************)
EXTENDS Integers, Sequences, FiniteSets, TLC

(* ------------------------- exact rationals ----------------------------- *)
Abs(x) == IF x < 0 THEN -x ELSE x

RECURSIVE GCD(_, _)
GCD(a, b) == IF b = 0 THEN a ELSE GCD(b, a % b)

Q(n, d) ==
    LET g == GCD(Abs(n), Abs(d))
        s == IF d < 0 THEN -1 ELSE 1
    IN  <<(s * n) \div g, (s * d) \div g>>

Zero == <<0, 1>>
One == <<1, 1>>
FloatInf == <<1, 0>>

RAdd(a, b) ==
    LET g == GCD(a[2], b[2])
    IN  Q(a[1] * (b[2] \div g) + b[1] * (a[2] \div g), (a[2] \div g) * b[2])
RNeg(a) == <<-a[1], a[2]>>
RSub(a, b) == RAdd(a, RNeg(b))
RMul(a, b) ==
    LET g1 == GCD(Abs(a[1]), b[2])
        g2 == GCD(Abs(b[1]), a[2])
    IN  Q((a[1] \div g1) * (b[1] \div g2), (a[2] \div g2) * (b[2] \div g1))
RDiv(a, b) == Q(a[1] * b[2], a[2] * b[1])
RLt(a, b) == RSub(b, a)[1] > 0
RLe(a, b) == RSub(b, a)[1] >= 0

\* rounding up instead of truncating
IntTrunc_up(a) == -((-a[1]) \div a[2])

\* int(x): truncation toward zero
IntTrunc(a) == IF a[1] >= 0 THEN a[1] \div a[2] ELSE -((-a[1]) \div a[2])

Last(s) == s[Len(s)]

(* ------------------------- bounds of the model ------------------------- *)
\* short horizons are 0, 1/2, ..., MaxHalfDays/2 days
MaxHalfDays == 3
\* long horizons are m * Stride and m * Stride + 1 days, m in 1..MaxStrides
MaxStrides == 1
\* reference tables have 1..MaxRows rows
MaxRows == 2
\* resolution of the rounded square root
SqrtScale == 1000

(* ------------------------- program constants --------------------------- *)
\* the [::1000] slices of sird_forecast
Stride == 1000

(* ------------------------- sird_forecast ------------------------------- *)
\* slips in the derivatives: the sign of ds, the deaths left out of di
ds_plus(b, s, i) == RMul(RMul(b, s), i)
di_leak(b, g, m, s, i) == RSub(RMul(RMul(b, s), i), RMul(g, i))

\* derivatives, evaluated on the current values
ds(b, s, i) == RMul(RMul(RNeg(b), s), i)
di(b, g, m, s, i) == RSub(RSub(RMul(RMul(b, s), i), RMul(g, i)), RMul(m, i))
dr(g, i) == RMul(g, i)
dd(m, i) == RMul(m, i)

\* range(0, nb_points)
RangeStart_zero == 1 - 1

\* first value of range(1, nb_points)
RangeStart == 1

\* x_next = x_current + dx * step
EulerNext(x, dx, h) == RAdd(x, RMul(dx, h))

\* lst[::1001]
Downsample_wide(lst) ==
    [j \in 1..((Len(lst) + Stride) \div (Stride + 1)) |-> lst[(j - 1) * (Stride + 1) + 1]]

\* lst[::1000]
Downsample(lst) ==
    [j \in 1..((Len(lst) + Stride - 1) \div Stride) |-> lst[(j - 1) * Stride + 1]]

(* ------------------------- rmse ---------------------------------------- *)
Max(a, b) == IF a >= b THEN a ELSE b

RECURSIVE SqrtSearch(_, _, _)
SqrtSearch(lo, hi, m) ==
    IF lo = hi THEN lo
    ELSE LET mid == (lo + hi + 1) \div 2
         IN  IF mid * mid <= m THEN SqrtSearch(mid, hi, m)
             ELSE SqrtSearch(lo, mid - 1, m)

\* largest r with r * r <= m
ISqrt(m) == SqrtSearch(0, IF m < 46340 THEN m ELSE 46340, m)

\* numpy.sqrt, rounded down to a multiple of 1 / SqrtScale
Sqrt(q) == Q(ISqrt((q[1] * SqrtScale * SqrtScale) \div q[2]), SqrtScale)

RECURSIVE Sum(_)
Sum(seq) == IF seq = <<>> THEN Zero ELSE RAdd(seq[1], Sum(Tail(seq)))

\* no length check at all
check_consistent_length_any(y_true, y_pred) == TRUE

\* sklearn's check_consistent_length: both arrays have the same length
check_consistent_length(y_true, y_pred) == Len(y_true) = Len(y_pred)

\* numpy broadcasting of a one-element array
Broadcast(a, i) == IF Len(a) = 1 THEN a[1] ELSE a[i]

\* numpy.average((y_true - y_pred) ** 2)
mean_squared_error(y_true, y_pred) ==
    LET len == Max(Len(y_true), Len(y_pred))
        err == [i \in 1..len |->
                  LET e == RSub(Broadcast(y_true, i), Broadcast(y_pred, i))
                  IN  RMul(e, e)]
    IN  RDiv(Sum(err), <<len, 1>>)

rmse(predictions, targets) == Sqrt(mean_squared_error(targets, predictions))

(* ------------------------- the candidate grid -------------------------- *)
\* numpy.linspace(lo, hi, num)
Linspace(lo, hi, num) ==
    [k \in 1..num |->
        IF num = 1 THEN lo
        ELSE RAdd(lo, RMul(<<k - 1, 1>>, RDiv(RSub(hi, lo), <<num - 1, 1>>)))]

\* the product without its last triple
Product_short(bs, gs, ms) ==
    [k \in 1..(Len(bs) * Len(gs) * Len(ms) - 1) |->
        << bs[((k - 1) \div (Len(gs) * Len(ms))) + 1],
           gs[(((k - 1) \div Len(ms)) % Len(gs)) + 1],
           ms[((k - 1) % Len(ms)) + 1] >>]

\* product(betas, gammas, mus): betas outermost, mus innermost
Product(bs, gs, ms) ==
    [k \in 1..(Len(bs) * Len(gs) * Len(ms)) |->
        << bs[((k - 1) \div (Len(gs) * Len(ms))) + 1],
           gs[(((k - 1) \div Len(ms)) % Len(gs)) + 1],
           ms[((k - 1) % Len(ms)) + 1] >>]

\* actual_rmse <= best_rmse
Less_or_equal(actual, best) == IF best = FloatInf THEN TRUE ELSE RLe(actual, best)

\* actual_rmse < best_rmse, best_rmse starting at float("inf")
Less(actual, best) == IF best = FloatInf THEN TRUE ELSE RLt(actual, best)

(* ------------------------- inputs -------------------------------------- *)
Half == <<1, 2>>
Quarter == <<1, 4>>
Two == <<2, 1>>

State(s, i, r, d) == [S |-> s, I |-> i, R |-> r, D |-> d]
Range(lo, hi, num) == [lo |-> lo, hi |-> hi, num |-> num]
Grid(b, g, m) == [betas |-> b, gammas |-> g, mus |-> m]

\* populations given as counts, rates that are whole numbers per step
CountInits == {State(One, One, Zero, Zero), State(Zero, One, Zero, Zero)}
CountGrids == {Grid(Range(Zero, One, 2), Range(Zero, One, 2), Range(Zero, One, 2))}
CountTruths == {<<One, One, Zero>>, <<Zero, One, One>>, <<Zero, Two, Zero>>}

\* populations given as fractions of 1
FractionInits == {State(Half, Half, Zero, Zero), State(Half, Quarter, Quarter, Zero)}
FractionGrids ==
    {Grid(Range(Zero, One, 3), Range(Zero, Half, 2), Range(Zero, Half, 2)),
     Grid(Range(One, One, 1), Range(Half, <<3, 2>>, 2), Range(Zero, One, 2))}
FractionTruths == {<<Half, Half, Zero>>, <<One, Half, One>>}

\* runs of a thousand steps and more: one start, four candidates
LongInits == {State(One, One, Zero, Zero)}
LongGrids == {Grid(Range(Zero, One, 2), Range(Zero, One, 2), Range(One, One, 1))}
LongTruths == {<<Zero, One, One>>}

Steps == {One, Half}
ShortHorizons == {Q(j, 2) : j \in 0..MaxHalfDays}
LongHorizons == {<<m * Stride + e, 1>> : m \in 1..MaxStrides, e \in 0..1}

\* reference tables: rows of a CSV with the four population columns
TableRows == {State(One, One, Zero, Zero), State(Zero, One, One, Zero)}
Tables == UNION {[1..len -> TableRows] : len \in 1..MaxRows}

\* the reference data is a table, or the integrator's own output for params
Truths(params) ==
    {[params |-> p, table |-> <<>>] : p \in params}
        \cup {[params |-> <<>>, table |-> tb] : tb \in Tables}

Config(h, d, c, g, t) ==
    [step |-> h, nb_jours |-> d, init_conditions |-> c, ranges |-> g, truth |-> t]

Configs ==
    {Config(h, d, c, g, t) : h \in Steps, d \in ShortHorizons, c \in CountInits,
                             g \in CountGrids, t \in Truths(CountTruths)}
    \cup
    {Config(One, d, c, g, t) : d \in LongHorizons, c \in LongInits,
                               g \in LongGrids, t \in Truths(LongTruths)}
    \cup
    {Config(h, d, c, g, t) : h \in Steps, d \in ShortHorizons, c \in FractionInits,
                             g \in FractionGrids, t \in Truths(FractionTruths)}

Columns(rows) ==
    [Susceptibles |-> [k \in 1..Len(rows) |-> rows[k].S],
     Infectes     |-> [k \in 1..Len(rows) |-> rows[k].I],
     Retablis     |-> [k \in 1..Len(rows) |-> rows[k].R],
     Deces        |-> [k \in 1..Len(rows) |-> rows[k].D]]

(* ------------------------- state --------------------------------------- *)
VARIABLES
    step, nb_jours, init_conditions, ranges, truth_params, ground_truth,
    pc, caller,
    beta, gamma, mu, time, S, I, R, D, nb_points, n, ret,
    betas, gammas, mus, idx, best, best_rmse, evaluated,
    printed, result

inputs == <<step, nb_jours, init_conditions, ranges, truth_params>>
forecast == <<beta, gamma, mu, time, S, I, R, D, nb_points, n>>
search == <<betas, gammas, mus, idx, best, best_rmse, evaluated>>
outputs == <<printed, result>>
vars == <<inputs, ground_truth, pc, caller, forecast, ret, search, outputs>>

None == <<>>

Init ==
    \E c \in Configs :
        /\ step = c.step
        /\ nb_jours = c.nb_jours
        /\ init_conditions = c.init_conditions
        /\ ranges = c.ranges
        /\ truth_params = c.truth.params
        /\ ground_truth = Columns(c.truth.table)
        /\ pc = IF c.truth.params = None THEN "search" ELSE "truth"
        /\ caller = "none"
        /\ beta = Zero /\ gamma = Zero /\ mu = Zero
        /\ time = <<>> /\ S = <<>> /\ I = <<>> /\ R = <<>> /\ D = <<>>
        /\ nb_points = 0 /\ n = 0
        /\ ret = None
        /\ betas = <<>> /\ gammas = <<>> /\ mus = <<>>
        /\ idx = 0 /\ best = None /\ best_rmse = FloatInf /\ evaluated = <<>>
        /\ printed = None /\ result = None

(* ------------------------- sird_forecast, step by step ----------------- *)
\* lines 22-28: the lists start with the initial conditions
Enter(b, g, m, from) ==
    /\ beta' = b /\ gamma' = g /\ mu' = m
    /\ time' = <<Zero>>
    /\ S' = <<init_conditions.S>>
    /\ I' = <<init_conditions.I>>
    /\ R' = <<init_conditions.R>>
    /\ D' = <<init_conditions.D>>
    /\ nb_points' = IntTrunc(RDiv(nb_jours, step))
    /\ n' = RangeStart
    /\ caller' = from
    /\ pc' = "forecast"

\* the step with di evaluated on the already updated S
EulerStep_Seidel ==
    /\ pc = "forecast"
    /\ n < nb_points
    /\ LET s_current == Last(S)
           i_current == Last(I)
           s_next == EulerNext(s_current, ds(beta, s_current, i_current), step)
       IN  /\ S' = Append(S, s_next)
           /\ I' = Append(I, EulerNext(i_current,
                                di(beta, gamma, mu, s_next, i_current), step))
           /\ R' = Append(R, EulerNext(Last(R), dr(gamma, i_current), step))
           /\ D' = Append(D, EulerNext(Last(D), dd(mu, i_current), step))
    /\ time' = Append(time, RAdd(Last(time), step))
    /\ n' = n + 1
    /\ UNCHANGED <<inputs, ground_truth, pc, caller, beta, gamma, mu, nb_points,
                   ret, search, outputs>>

\* lines 30-53: one iteration of for _ in range(1, nb_points)
EulerStep ==
    /\ pc = "forecast"
    /\ n < nb_points
    /\ LET s_current == Last(S)
           i_current == Last(I)
           r_current == Last(R)
           d_current == Last(D)
       IN  /\ S' = Append(S, EulerNext(s_current, ds(beta, s_current, i_current), step))
           /\ I' = Append(I, EulerNext(i_current,
                                di(beta, gamma, mu, s_current, i_current), step))
           /\ R' = Append(R, EulerNext(r_current, dr(gamma, i_current), step))
           /\ D' = Append(D, EulerNext(d_current, dd(mu, i_current), step))
    /\ time' = Append(time, RAdd(Last(time), step))
    /\ n' = n + 1
    /\ UNCHANGED <<inputs, ground_truth, pc, caller, beta, gamma, mu, nb_points,
                   ret, search, outputs>>

\* lines 56-61: downsample and return to the caller
Return ==
    /\ pc = "forecast"
    /\ n >= nb_points
    /\ ret' = [time |-> Downsample(time), S |-> Downsample(S), I |-> Downsample(I),
               R |-> Downsample(R), D |-> Downsample(D)]
    /\ pc' = caller
    /\ UNCHANGED <<inputs, ground_truth, caller, forecast, search, outputs>>

(* ------------------------- reference data generated by the integrator -- *)
\* the reference trajectory is the integrator's output for truth_params
CallTruth ==
    /\ pc = "truth"
    /\ Enter(truth_params[1], truth_params[2], truth_params[3], "truth_ret")
    /\ UNCHANGED <<inputs, ground_truth, ret, search, outputs>>

MakeTruth ==
    /\ pc = "truth_ret"
    /\ ground_truth' = [Susceptibles |-> ret.S, Infectes |-> ret.I,
                        Retablis |-> ret.R, Deces |-> ret.D]
    /\ pc' = "search"
    /\ UNCHANGED <<inputs, caller, forecast, ret, search, outputs>>

(* ------------------------- grid_search_sird ---------------------------- *)
\* lines 69-77
SearchInit ==
    /\ pc = "search"
    /\ betas' = Linspace(ranges.betas.lo, ranges.betas.hi, ranges.betas.num)
    /\ gammas' = Linspace(ranges.gammas.lo, ranges.gammas.hi, ranges.gammas.num)
    /\ mus' = Linspace(ranges.mus.lo, ranges.mus.hi, ranges.mus.num)
    /\ best' = None
    /\ best_rmse' = FloatInf
    /\ idx' = 0
    /\ pc' = "loop"
    /\ UNCHANGED <<inputs, ground_truth, caller, forecast, ret, evaluated, outputs>>

\* lines 79-80: the next triple of the product is simulated
NextCandidate ==
    /\ pc = "loop"
    /\ idx < Len(Product(betas, gammas, mus))
    /\ idx' = idx + 1
    /\ LET c == Product(betas, gammas, mus)[idx + 1]
       IN  Enter(c[1], c[2], c[3], "score")
    /\ UNCHANGED <<inputs, ground_truth, ret, betas, gammas, mus, best, best_rmse,
                   evaluated, outputs>>

\* line 82: mean_squared_error raises on arrays of different lengths
ScoreError ==
    /\ pc = "score"
    /\ ~check_consistent_length(ground_truth.Susceptibles, ret.S)
    /\ pc' = "error"
    /\ UNCHANGED <<inputs, ground_truth, caller, forecast, ret, search, outputs>>

\* the assignment of line 90 outside the if of line 88
Score_unindented ==
    /\ pc = "score"
    /\ check_consistent_length(ground_truth.Susceptibles, ret.S)
    /\ LET rmse_S == rmse(ret.S, ground_truth.Susceptibles)
           rmse_I == rmse(ret.I, ground_truth.Infectes)
           rmse_R == rmse(ret.R, ground_truth.Retablis)
           rmse_D == rmse(ret.D, ground_truth.Deces)
           actual_rmse == RAdd(RAdd(RAdd(rmse_S, rmse_I), rmse_R), rmse_D)
       IN  /\ best_rmse' = IF Less(actual_rmse, best_rmse) THEN actual_rmse
                           ELSE best_rmse
           /\ best' = <<beta, gamma, mu>>
           /\ evaluated' = Append(evaluated, [params |-> <<beta, gamma, mu>>,
                                              score |-> actual_rmse, out |-> ret])
    /\ pc' = "loop"
    /\ UNCHANGED <<inputs, ground_truth, caller, forecast, ret, betas, gammas, mus,
                   idx, outputs>>

\* lines 82-90
Score ==
    /\ pc = "score"
    /\ check_consistent_length(ground_truth.Susceptibles, ret.S)
    /\ LET rmse_S == rmse(ret.S, ground_truth.Susceptibles)
           rmse_I == rmse(ret.I, ground_truth.Infectes)
           rmse_R == rmse(ret.R, ground_truth.Retablis)
           rmse_D == rmse(ret.D, ground_truth.Deces)
           actual_rmse == RAdd(RAdd(RAdd(rmse_S, rmse_I), rmse_R), rmse_D)
       IN  /\ IF Less(actual_rmse, best_rmse)
              THEN /\ best_rmse' = actual_rmse
                   /\ best' = <<beta, gamma, mu>>
              ELSE UNCHANGED <<best, best_rmse>>
           /\ evaluated' = Append(evaluated, [params |-> <<beta, gamma, mu>>,
                                              score |-> actual_rmse, out |-> ret])
    /\ pc' = "loop"
    /\ UNCHANGED <<inputs, ground_truth, caller, forecast, ret, betas, gammas, mus,
                   idx, outputs>>

\* lines 92-95: the best triple is printed and simulated once more
Report ==
    /\ pc = "loop"
    /\ idx >= Len(Product(betas, gammas, mus))
    /\ printed' = best
    /\ Enter(best[1], best[2], best[3], "final_ret")
    /\ UNCHANGED <<inputs, ground_truth, ret, search, result>>

\* lines 96-98
Finish ==
    /\ pc = "final_ret"
    /\ result' = ret
    /\ pc' = "done"
    /\ UNCHANGED <<inputs, ground_truth, caller, forecast, ret, search, printed>>

Next ==
    \/ CallTruth
    \/ MakeTruth
    \/ EulerStep
    \/ Return
    \/ SearchInit
    \/ NextCandidate
    \/ ScoreError
    \/ Score
    \/ Report
    \/ Finish

Spec == Init /\ [][Next]_vars

(* ======================= properties of sird_forecast =================== *)
Returned == pc \in {"truth_ret", "score", "final_ret"}
Floor(q) == q[1] \div q[2]
Total(k) == RAdd(RAdd(RAdd(S[k], I[k]), R[k]), D[k])
InitialTotal ==
    RAdd(RAdd(RAdd(init_conditions.S, init_conditions.I), init_conditions.R),
         init_conditions.D)
NonNegative(q) == q[1] >= 0
Positive(q) == q[1] > 0

\* C4: with non-negative rates, the newest point of the trajectory has the
\* same sum S+I+R+D as the point before it and as the initial conditions.
C4_Conservation ==
    (Len(S) >= 1 /\ NonNegative(beta) /\ NonNegative(gamma) /\ NonNegative(mu)) =>
        /\ Total(Len(S)) = InitialTotal
        /\ Len(S) >= 2 => Total(Len(S)) = Total(Len(S) - 1)

C4_Witness ==
    /\ Len(S) >= 3
    /\ Positive(beta) /\ Positive(gamma) /\ Positive(mu)
    /\ S[3] # S[2] /\ S[2] # S[1] /\ I[3] # I[2] /\ D[3] # D[2] /\ R[3] # R[2]

Kept(lst) == {i \in 0..(Len(lst) - 1) : i % 1000 = 0}
IsStrideView(view, lst) ==
    /\ Len(view) = Cardinality(Kept(lst))
    /\ \A j \in 1..Len(view) : view[j] = lst[1000 * (j - 1) + 1]
C6_Downsample ==
    Returned =>
        /\ IsStrideView(ret.time, time)
        /\ IsStrideView(ret.S, S) /\ IsStrideView(ret.I, I)
        /\ IsStrideView(ret.R, R) /\ IsStrideView(ret.D, D)
        /\ Len(ret.S) = Len(ret.time) /\ Len(ret.I) = Len(ret.time)
        /\ Len(ret.R) = Len(ret.time) /\ Len(ret.D) = Len(ret.time)
        /\ Len(S) < 1000 + 1 =>
              ret = [time |-> <<Zero>>, S |-> <<init_conditions.S>>,
                     I |-> <<init_conditions.I>>, R |-> <<init_conditions.R>>,
                     D |-> <<init_conditions.D>>]

C6_Witness ==
    /\ Returned
    /\ Len(S) = 1000 + 1
    /\ Len(ret.D) = 2 /\ ret.D[2] = D[1001] /\ D[1001] # D[1]
    /\ ret.time = <<Zero, <<1000, 1>>>>

\* C8: when floor(nb_jours / step) = 1 no Euler step is made, and what
\* sird_forecast returns has length 1: time 0 and the initial conditions.
C8_SinglePoint ==
    Floor(RDiv(nb_jours, step)) = 1 =>
        /\ Len(S) <= 1
        /\ Len(time) <= 1
        /\ Returned =>
              ret = [time |-> <<Zero>>, S |-> <<init_conditions.S>>,
                     I |-> <<init_conditions.I>>, R |-> <<init_conditions.R>>,
                     D |-> <<init_conditions.D>>]

C8_Witness ==
    /\ Floor(RDiv(nb_jours, step)) = 1
    /\ Returned
    /\ Positive(beta) /\ Positive(gamma) /\ Positive(mu)
    /\ Positive(init_conditions.S) /\ Positive(init_conditions.I)
    /\ Len(ret.S) = 1

\* C9: an Euler step appends values computed from the values before the
\* step only: S - beta*S*I*step, I + (beta*S*I - gamma*I - mu*I)*step,
\* R + gamma*I*step and D + mu*I*step.
C9_Snapshot ==
    [][(pc = "forecast" /\ Len(S') = Len(S) + 1) =>
        LET s == Last(S)
            i == Last(I)
            bsi == RMul(RMul(beta, s), i)
            gi == RMul(gamma, i)
            mi == RMul(mu, i)
        IN  /\ Last(S') = RSub(s, RMul(bsi, step))
            /\ Last(I') = RAdd(i, RMul(RSub(RSub(bsi, gi), mi), step))
            /\ Last(R') = RAdd(Last(R), RMul(gi, step))
            /\ Last(D') = RAdd(Last(D), RMul(mi, step))
            /\ Len(I') = Len(S') /\ Len(R') = Len(S') /\ Len(D') = Len(S')]_vars

C9_Witness ==
    /\ pc = "forecast"
    /\ Len(S) >= 3
    /\ Positive(beta) /\ Positive(gamma) /\ Positive(mu)
    /\ S[2] # S[1] /\ I[2] # I[1] /\ I[3] # I[2] /\ S[3] # S[2]
    /\ step = Half

\* C10: for non-negative rates, initial conditions that are non-negative and
\* sum to 1, beta*step <= 1 and (gamma+mu)*step <= 1, the newest point has
\* S, I, R, D within [0, 1], S not above and R, D not below the point before.
InUnit(q) == RLe(Zero, q) /\ RLe(q, One)
C10_Pre ==
    /\ Len(S) >= 1
    /\ NonNegative(beta) /\ NonNegative(gamma) /\ NonNegative(mu)
    /\ NonNegative(init_conditions.S) /\ NonNegative(init_conditions.I)
    /\ NonNegative(init_conditions.R) /\ NonNegative(init_conditions.D)
    /\ InitialTotal = One
    /\ RLe(RMul(beta, step), One)
    /\ RLe(RMul(RAdd(gamma, mu), step), One)
C10_Bounded ==
    C10_Pre =>
        /\ InUnit(Last(S)) /\ InUnit(Last(I)) /\ InUnit(Last(R)) /\ InUnit(Last(D))
        /\ Len(S) >= 2 =>
              /\ RLe(Last(S), S[Len(S) - 1])
              /\ RLe(R[Len(R) - 1], Last(R))
              /\ RLe(D[Len(D) - 1], Last(D))

C10_Witness ==
    /\ C10_Pre
    /\ Len(S) >= 3
    /\ RLt(S[3], S[2]) /\ RLt(S[2], S[1])
    /\ RLt(R[2], R[3]) /\ RLt(D[2], D[3])
    /\ Positive(Last(I))

(* ======================= properties of grid_search_sird ================ *)
Elems(seq) == {seq[k] : k \in 1..Len(seq)}
GridSet == {<<b, g, m>> : b \in Elems(betas), g \in Elems(gammas), m \in Elems(mus)}
AggregateScore(out) ==
    RAdd(RAdd(RAdd(rmse(out.S, ground_truth.Susceptibles),
                   rmse(out.I, ground_truth.Infectes)),
              rmse(out.R, ground_truth.Retablis)),
         rmse(out.D, ground_truth.Deces))
ScoreOf(t) == (CHOOSE e \in Elems(evaluated) : e.params = t).score
OutOf(t) == (CHOOSE e \in Elems(evaluated) : e.params = t).out

\* C1: a finished search has scored every triple of the Cartesian product
\* once; the triple it prints belongs to the grid, the trajectory it returns
\* is the integrator's output for that triple, and the aggregate score of
\* that trajectory is at most the score of every triple of the grid.
C1_Argmin ==
    pc = "done" =>
        /\ Len(evaluated) = Len(betas) * Len(gammas) * Len(mus)
        /\ {e.params : e \in Elems(evaluated)} = GridSet
        /\ printed \in GridSet
        /\ result = OutOf(printed)
        /\ \A e \in Elems(evaluated) :
              /\ e.score = AggregateScore(e.out)
              /\ RLe(AggregateScore(result), e.score)

C1_Witness ==
    /\ pc = "done"
    /\ printed # evaluated[1].params
    /\ \E e \in Elems(evaluated) : RLt(best_rmse, e.score)
    /\ Len(result.S) = 2 /\ result.time = <<Zero, <<1000, 1>>>>

\* C2: the best triple changes only on a score strictly below the best so
\* far, and a finished search prints, among the triples of minimal score, the
\* one that comes first with betas outermost, gammas next, mus innermost.
Indices == (1..Len(betas)) \X (1..Len(gammas)) \X (1..Len(mus))
At(x) == <<betas[x[1]], gammas[x[2]], mus[x[3]]>>
Before(x, y) ==
    \/ x[1] < y[1]
    \/ x[1] = y[1] /\ x[2] < y[2]
    \/ x[1] = y[1] /\ x[2] = y[2] /\ x[3] < y[3]
Minimal(x) == \A y \in Indices : RLe(ScoreOf(At(x)), ScoreOf(At(y)))
FirstMinimal ==
    \E x \in Indices :
        /\ Minimal(x)
        /\ \A y \in Indices : Minimal(y) => (y = x \/ Before(x, y))
        /\ printed = At(x)
C2_StrictTieBreak ==
    /\ [](pc = "done" => FirstMinimal)
    /\ [][(best' # best \/ best_rmse' # best_rmse) =>
            /\ pc = "score"
            /\ best_rmse = FloatInf \/ RLt(Last(evaluated').score, best_rmse)
            /\ best' = Last(evaluated').params
            /\ best_rmse' = Last(evaluated').score]_vars

C2_Witness ==
    /\ pc = "done"
    /\ \E x, y \in Indices :
          /\ Before(x, y) /\ Minimal(x) /\ Minimal(y)
          /\ printed = At(x)
          /\ OutOf(At(x)) # OutOf(At(y))
    /\ \E e \in Elems(evaluated) : RLt(best_rmse, e.score)

\* C3 as stated: when the reference data is the integrator's output for a
\* triple of the grid, the search prints exactly that triple, with score 0.
C3_Original ==
    (pc = "done" /\ truth_params \in GridSet) =>
        (printed = truth_params /\ best_rmse = Zero)

\* C3 amended: when the reference data is the integrator's output for a
\* triple p of the grid, p scores 0 and the search prints, with score 0, the
\* first triple in enumeration order that scores 0: p itself, unless a
\* triple before p scores 0 as well.
C3_FirstZero ==
    (pc = "done" /\ truth_params \in GridSet) =>
        /\ best_rmse = Zero
        /\ \E k \in 1..Len(evaluated) :
              /\ evaluated[k].params = printed
              /\ evaluated[k].score = Zero
              /\ \A j \in 1..(k - 1) : evaluated[j].score # Zero
              /\ \E j \in k..Len(evaluated) :
                    /\ evaluated[j].params = truth_params
                    /\ evaluated[j].score = Zero

C3_Witness ==
    /\ pc = "done"
    /\ truth_params \in GridSet
    /\ printed = truth_params
    /\ printed # evaluated[1].params
    /\ \A e \in Elems(evaluated) : e.params # truth_params => Positive(e.score)

\* C7: when the downsampled trajectory and the reference columns differ in
\* length, scoring the first candidate ends the run in an error: nothing is
\* scored, nothing is printed, nothing is returned, and nothing follows.
Mismatch == pc = "score" /\ Len(ret.S) # Len(ground_truth.Susceptibles)
C7_ShapeMismatch ==
    [][/\ Mismatch =>
            /\ pc' = "error"
            /\ idx = 1
            /\ evaluated' = <<>> /\ best' = None
            /\ printed' = None /\ result' = None
       /\ pc # "error"]_vars

C7_Witness ==
    /\ pc = "error"
    /\ idx = 1
    /\ Len(Product(betas, gammas, mus)) > 1
    /\ Len(ret.S) = 2 /\ Len(ground_truth.Susceptibles) = 1

====
